---- MODULE Spec2Model ----
(***************************************************************************)
(* The Separation Game: the breadth-first path finder                      *)
(* (src/src/game/pathfinder.py), the quiz puzzle generator and the quiz    *)
(* session (src/src/game/quiz.py), over the structures load_data builds    *)
(* (src/src/data/loader.py).                                               *)
(*                                                                         *)
(* A Python set is iterated in an order the language does not fix, so the  *)
(* for loop over a neighbour set takes the neighbours in any order.        *)
(* random.choice is a free choice among the elements of the list.          *)
(***************************************************************************)
EXTENDS Integers, Sequences, FiniteSets, TLC

\* Player IDs of the path-finder inputs are 0..MaxId.
MaxId == 3
\* The adjacency structures tried have at most MaxEdges teammate pairs.
MaxEdges == 3
\* The quiz populations are chains of at most MaxChain players.
MaxChain == 6
\* The large populations have a clique of MIN_ELIGIBLE_PLAYERS - 2 up to
\* MIN_ELIGIBLE_PLAYERS - 2 + MaxExtra players.
MaxExtra == 3
\* The teammate tables load_data is run on have player IDs 0..MaxLoadId and
\* at most MaxRows rows.
MaxLoadId == 1
MaxRows == 3
\* The score and the total answered are followed up to MaxCount, the hints
\* used up to MaxHints.
MaxCount == 3
MaxHints == 2
\* The player tables load_data is run on have at most MaxPlayers rows.
MaxPlayers == 2
\* build_hint_text is called with the hint levels 0..MaxLevel.
MaxLevel == 6

\* config.py
MAX_QUIZ_ATTEMPTS == 100
MIN_ELIGIBLE_PLAYERS == 100
MAX_HINT_LEVELS == 5

VARIABLES
    teammate_graph,   \* Dict[int, Set[int]]: a function from its keys to sets
    start_id,         \* find_separation_path: argument
    end_id,           \* find_separation_path: argument
    queue,            \* find_separation_path: deque of <<id, path>>
    visited,          \* find_separation_path: set of IDs
    current_id,       \* find_separation_path: the entry popped last
    path,             \* find_separation_path: the path popped with it
    neighbors_left,   \* the neighbours the for loop has still to take
    fsp_pc,           \* "idle", "while", "for", "done"
    fsp_result,       \* what find_separation_path returned
    reads,            \* ghost: how often the call evaluated teammate_graph.get
    enqueued,         \* ghost: how often each ID was put on the queue
    display_names,    \* List[str]: the sorted display strings
    display_to_id,    \* Dict[str, int]
    difficulty,       \* get_random_quiz_players: argument
    eligible_players, \* get_random_quiz_players: the candidate pool
    attempt,          \* get_random_quiz_players: loop iterations begun
    player1_display,  \* get_random_quiz_players: first draw of the iteration
    player2_display,  \* get_random_quiz_players: second draw of the iteration
    quiz_pc,          \* "off", "idle", "loop", "search", "returned", "error"
    quiz_result,      \* what get_random_quiz_players returned
    searched,         \* ghost: the iteration called find_separation_path
    teammate_stats,   \* Dict[Tuple[int, int], dict]: the stats index
    rows_read,        \* load_data: the teammate rows the loop has taken
    load_pc,          \* "off", "rows", "returned"
    quiz_active,      \* st.session_state.quiz_active
    quiz_score,       \* st.session_state.quiz_score
    quiz_total,       \* st.session_state.quiz_total
    quiz_path,        \* st.session_state.quiz_path: None or a list of IDs
    quiz_guessed,     \* st.session_state.quiz_guessed: a list of booleans
    quiz_hints_used,  \* st.session_state.quiz_hints_used
    quiz_hint_level,  \* st.session_state.quiz_hint_level: position -> level
    quiz_player1,     \* st.session_state.quiz_player1
    quiz_player2,     \* st.session_state.quiz_player2
    last_call,        \* ghost: the session function called last and its result
    df_players,       \* load_data: the rows of the player profile table
    players_pc,       \* "off", "read", "returned"
    id_to_display,    \* Dict[int, str]
    player_id_to_name, \* Dict[int, str]: player ID -> clean name
    player_details,   \* Dict[int, dict]: player ID -> details for the hints
    hint_call,        \* build_hint_text: the arguments player_id and hint_level
    hint_out          \* build_hint_text: what the call came to

fsp_vars == <<start_id, end_id, queue, visited, current_id, path,
              neighbors_left, fsp_pc, fsp_result, reads, enqueued>>

data_vars == <<teammate_graph, display_names, display_to_id>>

quiz_vars == <<difficulty, eligible_players, attempt, player1_display,
               player2_display, quiz_pc, quiz_result, searched>>

load_vars == <<teammate_stats, rows_read, load_pc>>

state_vars == <<quiz_active, quiz_score, quiz_total, quiz_path, quiz_guessed,
                quiz_hints_used, quiz_hint_level, quiz_player1, quiz_player2>>

session_vars == <<state_vars, last_call>>

player_vars == <<df_players, players_pc, id_to_display, player_id_to_name,
                 player_details>>

hint_vars == <<hint_call, hint_out>>

vars == <<data_vars, fsp_vars, quiz_vars, load_vars, session_vars, player_vars,
          hint_vars>>

Ids == 0..MaxId

(***************************************************************************)
(* Values                                                                  *)
(***************************************************************************)
\* find_separation_path returns a list of IDs or None.
NoneResult == [is_none |-> TRUE, path |-> <<>>]
PathResult(p) == [is_none |-> FALSE, path |-> p]

\* Mutant of Neighbors: the default of the lookup is the dictionary itself,
\* which iterates as its keys.
NeighborsOrKeys(graph, player_id) ==
    IF player_id \in DOMAIN graph THEN graph[player_id] ELSE DOMAIN graph

\* teammate_graph.get(player_id, []): the neighbour set, empty for a missing key.
Neighbors(graph, player_id) ==
    IF player_id \in DOMAIN graph THEN graph[player_id] ELSE {}

\* Mutant of GraphAfterGet: teammate_graph[player_id] on a defaultdict(set)
\* creates the missing key with an empty set.
GraphAfterIndex(graph, player_id) ==
    [k \in DOMAIN graph \cup {player_id} |-> Neighbors(graph, k)]

\* The dictionary after teammate_graph.get(player_id, []): load_data returns a
\* plain dict, and get adds no key to it.
GraphAfterGet(graph, player_id) == graph

\* The dictionary after a lookup of each of the IDs.
GraphAfterGets(graph, ids) ==
    [k \in DOMAIN graph \cup UNION {DOMAIN GraphAfterGet(graph, i) : i \in ids} |->
        IF k \in DOMAIN graph THEN graph[k] ELSE GraphAfterGet(graph, k)[k]]

(***************************************************************************)
(* load_data: the teammate graph                                           *)
(***************************************************************************)
EmptyGraph == [k \in {} |-> {}]

\* graph[a].add(b) on a defaultdict(set)
GraphAdd(graph, a, b) ==
    [k \in DOMAIN graph \cup {a} |-> IF k = a THEN Neighbors(graph, a) \cup {b}
                                             ELSE graph[k]]

\* Mutant of AddTeammateRow: the row is entered in its own direction only.
AddTeammateRowOneWay(graph, player_id, teammate_id) ==
    GraphAdd(graph, player_id, teammate_id)

\* One row of the teammates table: both directions are written.
AddTeammateRow(graph, player_id, teammate_id) ==
    GraphAdd(GraphAdd(graph, player_id, teammate_id), teammate_id, player_id)

\* The graph after the rows of a set of (player_id, teammate_id) pairs; the
\* graph does not depend on the order of the rows.
RECURSIVE GraphOfRows(_)
GraphOfRows(rows) ==
    IF rows = {} THEN EmptyGraph
    ELSE LET r == CHOOSE r \in rows : TRUE
         IN AddTeammateRow(GraphOfRows(rows \ {r}), r[1], r[2])

\* A dictionary that holds the rows in one direction only: not what load_data
\* builds, but a Dict[int, Set[int]] find_separation_path can be handed.
RECURSIVE OneWayGraph(_)
OneWayGraph(rows) ==
    IF rows = {} THEN EmptyGraph
    ELSE LET r == CHOOSE r \in rows : TRUE
         IN GraphAdd(OneWayGraph(rows \ {r}), r[1], r[2])

(***************************************************************************)
(* load_data: the stats index                                              *)
(***************************************************************************)
\* A cell of the teammates table: <<>> for a null, <<v>> for the number v.
NullCell == <<>>

EmptyStats == [k \in {} |-> 0]

\* lines 121-123: the stats dictionary of a row <<player_id,
\* teammate_player_id, minutes_played_with, joint_goal_participation>>
RowStats(row) == [minutes |-> row[3], goals |-> row[4]]

\* teammate_stats[key] = stats
StatsPut(index, key, stats) ==
    [k \in DOMAIN index \cup {key} |-> IF k = key THEN stats ELSE index[k]]

\* Mutants of AddStatsRow: the row is indexed under its own direction only; a
\* row without numbers is not indexed; a pair that has an entry keeps it.
AddStatsRowOneWay(index, player_id, teammate_id, stats) ==
    StatsPut(index, <<player_id, teammate_id>>, stats)
AddStatsRowSkipsNull(index, player_id, teammate_id, stats) ==
    IF stats.minutes = NullCell /\ stats.goals = NullCell THEN index
    ELSE StatsPut(StatsPut(index, <<player_id, teammate_id>>, stats),
                  <<teammate_id, player_id>>, stats)
AddStatsRowKeepsFirst(index, player_id, teammate_id, stats) ==
    IF <<player_id, teammate_id>> \in DOMAIN index THEN index
    ELSE StatsPut(StatsPut(index, <<player_id, teammate_id>>, stats),
                  <<teammate_id, player_id>>, stats)

\* lines 125-126: both orderings of the pair get the stats of the row
AddStatsRow(index, player_id, teammate_id, stats) ==
    StatsPut(StatsPut(index, <<player_id, teammate_id>>, stats),
             <<teammate_id, player_id>>, stats)

\* One iteration of the loop of lines 114-126.
LoadRow(row) ==
    /\ load_pc = "rows"
    /\ Len(rows_read) < MaxRows
    /\ teammate_graph' = AddTeammateRow(teammate_graph, row[1], row[2])
    /\ teammate_stats' = AddStatsRow(teammate_stats, row[1], row[2], RowStats(row))
    /\ rows_read' = Append(rows_read, row)
    /\ UNCHANGED <<load_pc, display_names, display_to_id, fsp_vars, quiz_vars,
                   session_vars, player_vars, hint_vars>>

\* The table has no further row: line 128 returns dict(teammate_graph) and
\* teammate_stats.
LoadReturn ==
    /\ load_pc = "rows"
    /\ load_pc' = "returned"
    /\ teammate_graph' = [k \in DOMAIN teammate_graph |-> teammate_graph[k]]
    /\ UNCHANGED <<teammate_stats, rows_read, display_names, display_to_id,
                   fsp_vars, quiz_vars, session_vars, player_vars, hint_vars>>

(***************************************************************************)
(* find_separation_path                                                    *)
(***************************************************************************)
\* Mutants of Extend: the path is passed on as it is; the ID is put in front.
ExtendDropsId(p, neighbor_id) == p
ExtendInFront(p, neighbor_id) == <<neighbor_id>> \o p

\* path + [neighbor_id]
Extend(p, neighbor_id) == Append(p, neighbor_id)

\* queue.popleft()
PopLeft(q) == [head |-> Head(q), rest |-> Tail(q)]

\* Mutant of Unvisited: the visited set is not consulted.
UnvisitedAlways(neighbor_id, seen) == TRUE

\* The test of line 36.
Unvisited(neighbor_id, seen) == neighbor_id \notin seen

\* Mutant of FspBegin: no early return for start_id = end_id.
FspBeginNoShortcut(a, b) ==
    /\ start_id' = a
    /\ end_id' = b
    /\ reads' = 0
    /\ current_id' = a
    /\ path' = <<>>
    /\ neighbors_left' = {}
    /\ fsp_result' = NoneResult
    /\ fsp_pc' = "while"
    /\ queue' = << <<a, <<a>> >> >>
    /\ visited' = {a}
    /\ enqueued' = (a :> 1)

\* The call: lines 23-27.
FspBegin(a, b) ==
    /\ start_id' = a
    /\ end_id' = b
    /\ reads' = 0
    /\ current_id' = a
    /\ path' = <<>>
    /\ neighbors_left' = {}
    /\ IF a = b
       THEN /\ fsp_result' = PathResult(<<a>>)
            /\ fsp_pc' = "done"
            /\ queue' = <<>>
            /\ visited' = {}
            /\ enqueued' = [i \in {} |-> 0]
       ELSE /\ fsp_result' = NoneResult
            /\ fsp_pc' = "while"
            /\ queue' = << <<a, <<a>> >> >>
            /\ visited' = {a}
            /\ enqueued' = (a :> 1)

\* while queue: current_id, path = queue.popleft(); the for loop starts.
FspDequeue ==
    /\ fsp_pc = "while"
    /\ queue # <<>>
    /\ LET e == PopLeft(queue)
           ns == Neighbors(teammate_graph, e.head[1])
       IN /\ queue' = e.rest
          /\ current_id' = e.head[1]
          /\ path' = e.head[2]
          /\ reads' = reads + 1
          /\ neighbors_left' = ns
          /\ fsp_pc' = IF ns = {} THEN "while" ELSE "for"
          /\ teammate_graph' = GraphAfterGet(teammate_graph, e.head[1])
    /\ UNCHANGED <<start_id, end_id, visited, fsp_result, enqueued>>

Count(f, x) == IF x \in DOMAIN f THEN f[x] ELSE 0

\* One iteration of the for loop, lines 33-38.
FspNeighbor(neighbor_id) ==
    /\ fsp_pc = "for"
    /\ neighbor_id \in neighbors_left
    /\ IF neighbor_id = end_id
       THEN /\ fsp_result' = PathResult(Extend(path, end_id))
            /\ fsp_pc' = "done"
            /\ neighbors_left' = {}
            /\ UNCHANGED <<queue, visited, enqueued>>
       ELSE /\ neighbors_left' = neighbors_left \ {neighbor_id}
            /\ fsp_pc' = IF neighbors_left' = {} THEN "while" ELSE "for"
            /\ IF Unvisited(neighbor_id, visited)
               THEN /\ visited' = visited \cup {neighbor_id}
                    /\ queue' = Append(queue, <<neighbor_id, Extend(path, neighbor_id)>>)
                    /\ enqueued' = [i \in DOMAIN enqueued \cup {neighbor_id} |->
                                       IF i = neighbor_id
                                       THEN Count(enqueued, i) + 1
                                       ELSE enqueued[i]]
               ELSE UNCHANGED <<queue, visited, enqueued>>
            /\ UNCHANGED fsp_result
    /\ UNCHANGED <<start_id, end_id, current_id, path, reads, teammate_graph>>

\* Mutant of FspExhausted: the path popped last is returned in place of None.
FspExhaustedReturnsPath ==
    /\ fsp_pc = "while"
    /\ queue = <<>>
    /\ fsp_result' = PathResult(path)
    /\ fsp_pc' = "done"
    /\ UNCHANGED <<start_id, end_id, queue, visited, current_id, path,
                   neighbors_left, reads, enqueued, teammate_graph>>

\* The queue is empty: return None.
FspExhausted ==
    /\ fsp_pc = "while"
    /\ queue = <<>>
    /\ fsp_result' = NoneResult
    /\ fsp_pc' = "done"
    /\ UNCHANGED <<start_id, end_id, queue, visited, current_id, path,
                   neighbors_left, reads, enqueued, teammate_graph>>

FspStep ==
    \/ FspDequeue
    \/ \E n \in neighbors_left : FspNeighbor(n)
    \/ FspExhausted

\* No call of find_separation_path is in progress or has returned.
FspIdle ==
    /\ start_id = 0 /\ end_id = 0 /\ queue = <<>> /\ visited = {}
    /\ current_id = 0 /\ path = <<>> /\ neighbors_left = {}
    /\ fsp_pc = "idle" /\ fsp_result = NoneResult /\ reads = 0
    /\ enqueued = [i \in {} |-> 0]

\* The caller has taken the result: the locals of the call are gone.
FspFrameDropped ==
    /\ start_id' = 0 /\ end_id' = 0 /\ queue' = <<>> /\ visited' = {}
    /\ current_id' = 0 /\ path' = <<>> /\ neighbors_left' = {}
    /\ fsp_pc' = "idle" /\ fsp_result' = NoneResult /\ reads' = 0
    /\ enqueued' = [i \in {} |-> 0]

(***************************************************************************)
(* load_data: the display table.  A display string is modelled by a        *)
(* number; the order of the numbers is the order of the strings.           *)
(***************************************************************************)
EmptyMap == [k \in {} |-> 0]

Range(seq) == {seq[i] : i \in DOMAIN seq}

\* sorted(set): the middle element, the smaller ones before it, the larger after.
RECURSIVE Sorted(_)
Sorted(set) ==
    IF set = {} THEN <<>>
    ELSE LET mid == CHOOSE x \in set :
                        Cardinality({y \in set : y < x}) = Cardinality(set) \div 2
         IN Sorted({y \in set : y < mid}) \o <<mid>> \o Sorted({y \in set : y > mid})

\* The loop over the player rows, <<player_id, display_name>> each:
\* display_to_id[display_name] = player_id, a later row overwriting an earlier,
\* so each display string ends with the ID of the last row that has it.
LoadDisplayToId(profiles) ==
    [d \in {profiles[i][2] : i \in DOMAIN profiles} |->
        LET last == CHOOSE i \in DOMAIN profiles :
                        /\ profiles[i][2] = d
                        /\ \A j \in DOMAIN profiles : profiles[j][2] = d => j <= i
        IN profiles[last][1]]

\* display_names = sorted(set(display_names))
LoadDisplayNames(profiles) == Sorted({profiles[i][2] : i \in DOMAIN profiles})

(***************************************************************************)
(* load_data: the player tables.  A string is the sequence of the codes of *)
(* its characters; a missing cell (NaN, None) is NullCell and a cell that  *)
(* holds v is <<v>>.                                                       *)
(***************************************************************************)
\* The string "Unknown".
Unknown == <<85, 110, 107, 110, 111, 119, 110>>

\* str.strip(): the blanks at both ends are dropped.
RECURSIVE Strip(_)
Strip(s) ==
    IF s = <<>> THEN s
    ELSE IF s[1] = 32 THEN Strip(Tail(s))
    ELSE IF s[Len(s)] = 32 THEN Strip(SubSeq(s, 1, Len(s) - 1))
    ELSE s

\* _clean_player_name on a name that is not NaN: a "(digits)" at the end of
\* the name goes, with the blanks before it, and the rest is stripped.
CleanPlayerName(name) ==
    LET n == Len(name)
        opening == {i \in 1..(n - 2) :
                       /\ name[i] = 40
                       /\ \A j \in (i + 1)..(n - 1) : name[j] \in 48..57}
    IN IF n >= 3 /\ name[n] = 41 /\ opening # {}
       THEN Strip(SubSeq(name, 1, (CHOOSE i \in opening : TRUE) - 1))
       ELSE Strip(name)

\* str(age) of an age that is not negative.
RECURSIVE Digits(_)
Digits(n) == IF n < 10 THEN <<48 + n>> ELSE Digits(n \div 10) \o <<48 + (n % 10)>>

\* Python's truth value of an age: None and 0 are false.
AgeGiven(age) == age # NullCell /\ age[1] # 0

\* Line 88: f", {age} yrs" if age else "".
AgeStr(age) ==
    IF AgeGiven(age) THEN <<44, 32>> \o Digits(age[1]) \o <<32, 121, 114, 115>> ELSE <<>>

\* _get_safe_value: the default for a missing cell.
SafeValue(cell) == IF cell = NullCell THEN Unknown ELSE cell[1]

\* Line 91: f"{player_name} ({club}{age_str})".
DisplayName(player_name, club, age_str) ==
    player_name \o <<32, 40>> \o club \o age_str \o <<41>>

\* Line 68: the rows whose player_name is NaN are dropped.
DropNa(rows) == SelectSeq(rows, LAMBDA row : row.player_name # NullCell)

\* The display string line 91 builds for a row that was not dropped.
RowDisplayName(row) ==
    DisplayName(CleanPlayerName(row.player_name[1]), SafeValue(row.current_club_name),
                AgeStr(row.age))

\* The last of the rows with the player ID.
LastRowOf(rows, player_id) ==
    rows[CHOOSE i \in DOMAIN rows :
            /\ rows[i].player_id = player_id
            /\ \A j \in DOMAIN rows : rows[j].player_id = player_id => j <= i]

\* id_to_display[player_id] = display_name in the loop of lines 79-104: each
\* player ID ends with the display string of the last row that has the ID.
LoadIdToDisplay(rows) ==
    LET kept == DropNa(rows)
    IN [p \in {kept[i].player_id : i \in DOMAIN kept} |->
           RowDisplayName(LastRowOf(kept, p))]

\* The <<player_id, display_name>> pairs of the loop, in the order of the rows.
PlayerProfiles(rows) ==
    LET kept == DropNa(rows)
    IN [i \in DOMAIN kept |-> <<kept[i].player_id, RowDisplayName(kept[i])>>]

\* Line 71: set_index("player_id")["clean_name"].to_dict().
LoadIdToName(rows) ==
    LET kept == DropNa(rows)
    IN [p \in {kept[i].player_id : i \in DOMAIN kept} |->
           CleanPlayerName(LastRowOf(kept, p).player_name[1])]

\* Lines 96-104: the details kept for the hints.
LoadPlayerDetails(rows) ==
    LET kept == DropNa(rows)
    IN [p \in {kept[i].player_id : i \in DOMAIN kept} |->
           LET row == LastRowOf(kept, p)
           IN [name        |-> CleanPlayerName(row.player_name[1]),
               club        |-> SafeValue(row.current_club_name),
               nationality |-> SafeValue(row.citizenship),
               position    |-> SafeValue(row.position),
               age         |-> row.age]]

\* The order of Python's strings: a string comes before the strings it is a
\* proper prefix of and before those that are larger where they first differ.
StringBefore(a, b) ==
    \/ /\ Len(a) < Len(b)
       /\ \A i \in 1..Len(a) : a[i] = b[i]
    \/ \E i \in 1..Len(a) :
          /\ i <= Len(b)
          /\ a[i] < b[i]
          /\ \A j \in 1..(i - 1) : a[j] = b[j]

\* sorted(set) of strings.
RECURSIVE SortedStrings(_)
SortedStrings(set) ==
    IF set = {} THEN <<>>
    ELSE LET first == CHOOSE a \in set : \A b \in set \ {a} : StringBefore(a, b)
         IN <<first>> \o SortedStrings(set \ {first})

\* The player tables are not followed.
PlayersOff ==
    /\ df_players = <<>> /\ players_pc = "off"
    /\ id_to_display = EmptyMap
    /\ player_id_to_name = EmptyMap
    /\ player_details = EmptyMap
    /\ hint_call = [player_id |-> 0, hint_level |-> 0]
    /\ hint_out = [pc |-> "off"]

\* load_data on the player table, the teammate table being empty: lines
\* 68-108 and the return of lines 128-136.
LoadPlayers ==
    /\ players_pc = "read"
    /\ players_pc' = "returned"
    /\ player_id_to_name' = LoadIdToName(df_players)
    /\ display_to_id' = LoadDisplayToId(PlayerProfiles(df_players))
    /\ id_to_display' = LoadIdToDisplay(df_players)
    /\ player_details' = LoadPlayerDetails(df_players)
    /\ display_names' = SortedStrings(Range([i \in DOMAIN PlayerProfiles(df_players) |->
                                                PlayerProfiles(df_players)[i][2]]))
    /\ UNCHANGED <<teammate_graph, df_players, fsp_vars, quiz_vars, load_vars,
                   session_vars, hint_vars>>

(***************************************************************************)
(* build_hint_text                                                         *)
(***************************************************************************)
\* player_id_to_name.get(player_id, "Unknown")
NameOf(names, player_id) ==
    IF player_id \in DOMAIN names THEN names[player_id] ELSE Unknown

\* player_details.get(player_id, {}).get(key, "Unknown")
Detail(details, player_id, key) ==
    IF player_id \in DOMAIN details THEN details[player_id][key] ELSE Unknown

\* player_details.get(player_id, {}).get("age")
AgeOf(details, player_id) ==
    IF player_id \in DOMAIN details THEN details[player_id].age ELSE NullCell

\* One line of the hint list: what it is about, the text shown in bold and,
\* on the first line only, the length of the name.
Hint(label, value, length) == [label |-> label, value |-> value, length |-> length]

\* Mutant of HintList: only the attribute of the level asked for is shown
\* after the first line.
HintListOfLevelOnly(player_id, hint_level, names, details) ==
    LET correct_name == NameOf(names, player_id)
    IN <<Hint("First letter", <<correct_name[1]>>, <<Len(correct_name)>>)>>
       \o (IF hint_level = 1
           THEN <<Hint("Nationality", Detail(details, player_id, "nationality"), NullCell)>>
           ELSE <<>>)
       \o (IF hint_level = 2
           THEN <<Hint("Club", Detail(details, player_id, "club"), NullCell)>>
           ELSE <<>>)
       \o (IF hint_level = 3
           THEN <<Hint("Position", Detail(details, player_id, "position"), NullCell)>>
           ELSE <<>>)
       \o (IF hint_level >= 4
           THEN <<Hint("Age", IF AgeGiven(AgeOf(details, player_id))
                              THEN Digits(AgeOf(details, player_id)[1])
                              ELSE Unknown, NullCell)>>
           ELSE <<>>)

\* The list hints of lines 138-162, for a name that has a first character.
HintList(player_id, hint_level, names, details) ==
    LET correct_name == NameOf(names, player_id)
    IN <<Hint("First letter", <<correct_name[1]>>, <<Len(correct_name)>>)>>
       \o (IF hint_level >= 1
           THEN <<Hint("Nationality", Detail(details, player_id, "nationality"), NullCell)>>
           ELSE <<>>)
       \o (IF hint_level >= 2
           THEN <<Hint("Club", Detail(details, player_id, "club"), NullCell)>>
           ELSE <<>>)
       \o (IF hint_level >= 3
           THEN <<Hint("Position", Detail(details, player_id, "position"), NullCell)>>
           ELSE <<>>)
       \o (IF hint_level >= 4
           THEN <<Hint("Age", IF AgeGiven(AgeOf(details, player_id))
                              THEN Digits(AgeOf(details, player_id)[1])
                              ELSE Unknown, NullCell)>>
           ELSE <<>>)

\* "<br>".join(hints): the lines with a break between each two of them.
RECURSIVE Join(_)
Join(hints) ==
    IF Len(hints) <= 1 THEN hints
    ELSE Join(SubSeq(hints, 1, Len(hints) - 1))
            \o <<Hint("<br>", <<>>, NullCell), hints[Len(hints)]>>

\* Line 166: remaining = max(0, MAX_HINT_LEVELS - (hint_level + 1)).
Remaining(hint_level) ==
    IF MAX_HINT_LEVELS - (hint_level + 1) > 0 THEN MAX_HINT_LEVELS - (hint_level + 1) ELSE 0

\* Lines 167-171: "Hint {hint_level + 1}/{MAX_HINT_LEVELS}" followed by
\* " ({remaining} more available)" or by " (all hints revealed!)".
HintHeader(hint_level) ==
    [number       |-> hint_level + 1,
     of           |-> MAX_HINT_LEVELS,
     more         |-> IF Remaining(hint_level) > 0 THEN <<Remaining(hint_level)>>
                      ELSE NullCell,
     all_revealed |-> ~(Remaining(hint_level) > 0)]

\* build_hint_text(player_id, hint_level, player_id_to_name, player_details):
\* correct_name[0] of line 141 raises IndexError on an empty name; otherwise
\* the header and the joined text are returned.  The list hints and the
\* number remaining are kept beside them.
BuildHintText(player_id, hint_level) ==
    /\ players_pc = "returned"
    /\ hint_call' = [player_id |-> player_id, hint_level |-> hint_level]
    /\ hint_out' =
          IF NameOf(player_id_to_name, player_id) = <<>>
          THEN [pc |-> "raised"]
          ELSE [pc        |-> "returned",
                header    |-> HintHeader(hint_level),
                text      |-> Join(HintList(player_id, hint_level, player_id_to_name,
                                            player_details)),
                hints     |-> HintList(player_id, hint_level, player_id_to_name,
                                       player_details),
                remaining |-> Remaining(hint_level)]
    /\ UNCHANGED <<data_vars, fsp_vars, quiz_vars, load_vars, session_vars, player_vars>>

(***************************************************************************)
(* get_random_quiz_players                                                 *)
(***************************************************************************)
\* DIFFICULTY_SETTINGS.get(difficulty, DIFFICULTY_SETTINGS["Medium"])
Settings(d) ==
    CASE d = "Easy" -> [min_degrees |-> 2, max_degrees |-> 3, min_teammates |-> 50]
      [] d = "Hard" -> [min_degrees |-> 4, max_degrees |-> 5, min_teammates |-> 5]
      [] OTHER      -> [min_degrees |-> 3, max_degrees |-> 4, min_teammates |-> 20]

Difficulties == {"Easy", "Medium", "Hard", "Expert"}

\* The tuple returned: (None, None, None).
Failure == [found |-> FALSE, player1 |-> 0, player2 |-> 0, path |-> <<>>]

\* Mutant of Accepted: the two display strings are returned in the other order.
AcceptedSwapped(p1, p2, p) == [found |-> TRUE, player1 |-> p2, player2 |-> p1, path |-> p]

\* The tuple returned: (player1_display, player2_display, path).
Accepted(p1, p2, p) == [found |-> TRUE, player1 |-> p1, player2 |-> p2, path |-> p]

\* Python's truth value of display_to_id.get(display_name): None (no such
\* key) and the integer 0 are both false.
Truthy(map, display_name) ==
    display_name \in DOMAIN map /\ map[display_name] # 0

\* The list comprehension of lines 43-48.
FilterEligible(names, map, graph, min_teammates) ==
    LET Keep(d) == /\ Truthy(map, d)
                   /\ Cardinality(Neighbors(graph, map[d])) >= min_teammates
    IN SelectSeq(names, Keep)

\* Lines 43-52: the filtered list, or all names when it is too short.
EligiblePlayers(names, map, graph, min_teammates) ==
    LET filtered == FilterEligible(names, map, graph, min_teammates)
    IN IF Len(filtered) < MIN_ELIGIBLE_PLAYERS THEN names ELSE filtered

\* Mutant of InRange: the element count is compared, not the degree count.
InRangeOfLength(result, d) ==
    /\ ~result.is_none /\ result.path # <<>>
    /\ Settings(d).min_degrees <= Len(result.path)
    /\ Len(result.path) <= Settings(d).max_degrees

\* if path and min_degrees <= len(path) - 1 <= max_degrees
InRange(result, d) ==
    /\ ~result.is_none /\ result.path # <<>>
    /\ Settings(d).min_degrees <= Len(result.path) - 1
    /\ Len(result.path) - 1 <= Settings(d).max_degrees

\* The call: lines 37-52.
QuizCall(d) ==
    /\ quiz_pc \in {"idle", "returned", "error"}
    /\ difficulty' = d
    /\ eligible_players' = EligiblePlayers(display_names, display_to_id,
                                           teammate_graph, Settings(d).min_teammates)
    /\ attempt' = 0
    /\ searched' = FALSE
    /\ player1_display' = 0
    /\ player2_display' = 0
    /\ quiz_result' = Failure
    /\ quiz_pc' = "loop"
    /\ teammate_graph' = GraphAfterGets(teammate_graph,
                             {display_to_id[p] : p \in {q \in Range(display_names) :
                                                         Truthy(display_to_id, q)}})
    /\ UNCHANGED <<display_names, display_to_id, fsp_vars, load_vars, player_vars, hint_vars, session_vars>>

\* One iteration of the sampling loop up to the call of the path finder,
\* lines 55-65, for the draws p1 and p2.
QuizAttempt(p1, p2) ==
    /\ quiz_pc = "loop"
    /\ attempt < MAX_QUIZ_ATTEMPTS
    /\ p1 \in Range(eligible_players)
    /\ p2 \in Range(eligible_players)
    /\ attempt' = attempt + 1
    /\ player1_display' = p1
    /\ player2_display' = p2
    /\ IF p1 # p2 /\ Truthy(display_to_id, p1) /\ Truthy(display_to_id, p2)
       THEN /\ FspBegin(display_to_id[p1], display_to_id[p2])
            /\ searched' = TRUE
            /\ quiz_pc' = "search"
       ELSE /\ searched' = FALSE
            /\ UNCHANGED <<fsp_vars, quiz_pc>>
    /\ UNCHANGED <<data_vars, load_vars, player_vars, hint_vars, session_vars, difficulty, eligible_players, quiz_result>>

\* random.choice of an empty list raises IndexError.
QuizChoiceFails ==
    /\ quiz_pc = "loop"
    /\ attempt < MAX_QUIZ_ATTEMPTS
    /\ eligible_players = <<>>
    /\ attempt' = attempt + 1
    /\ quiz_pc' = "error"
    /\ UNCHANGED <<data_vars, load_vars, player_vars, hint_vars, session_vars, fsp_vars, difficulty, eligible_players,
                   player1_display, player2_display, quiz_result, searched>>

\* The path finder has returned: lines 66-67.
QuizSearchReturns ==
    /\ quiz_pc = "search"
    /\ fsp_pc = "done"
    /\ IF InRange(fsp_result, difficulty)
       THEN /\ quiz_result' = Accepted(player1_display, player2_display, fsp_result.path)
            /\ quiz_pc' = "returned"
       ELSE /\ quiz_pc' = "loop"
            /\ UNCHANGED quiz_result
    /\ FspFrameDropped
    /\ UNCHANGED <<data_vars, load_vars, player_vars, hint_vars, session_vars, difficulty, eligible_players, attempt,
                   player1_display, player2_display, searched>>

\* The loop has run MAX_QUIZ_ATTEMPTS times: return None, None, None.
QuizExhausted ==
    /\ quiz_pc = "loop"
    /\ attempt = MAX_QUIZ_ATTEMPTS
    /\ quiz_result' = Failure
    /\ quiz_pc' = "returned"
    /\ UNCHANGED <<data_vars, load_vars, player_vars, hint_vars, session_vars, fsp_vars, difficulty, eligible_players, attempt,
                   player1_display, player2_display, searched>>

(***************************************************************************)
(* The quiz session: st.session_state under the functions of quiz.py.      *)
(* start_new_quiz runs the generator to its end before it goes on, so the  *)
(* call is taken as one step over the results the generator can return.    *)
(***************************************************************************)
\* The paths of k edges from a to b.
RECURSIVE PathsOfLength(_, _, _, _)
PathsOfLength(graph, a, b, k) ==
    IF k = 0 THEN (IF a = b THEN {<<a>>} ELSE {})
    ELSE UNION {{<<a>> \o q : q \in PathsOfLength(graph, n, b, k - 1)} :
                   n \in Neighbors(graph, a)}

\* What find_separation_path(a, b, graph) can return: [a] for a = b, else
\* None when the breadth-first search never meets b, else a path to b
\* with the fewest edges, which one depending on the order of iteration.
FindSeparationPath(graph, a, b) ==
    IF a = b THEN {PathResult(<<a>>)}
    ELSE LET n == Cardinality(DOMAIN graph \cup UNION {graph[x] : x \in DOMAIN graph})
             lengths == {k \in 1..n : PathsOfLength(graph, a, b, k) # {}}
         IN IF lengths = {} THEN {NoneResult}
            ELSE {PathResult(q) :
                     q \in PathsOfLength(graph, a, b,
                              CHOOSE k \in lengths : \A j \in lengths : k <= j)}

\* get_random_quiz_players raises: random.choice of an empty pool.
QuizRaises(names, map, graph, d) ==
    EligiblePlayers(names, map, graph, Settings(d).min_teammates) = <<>>

\* What get_random_quiz_players can return: a triple of two different draws
\* with true IDs and an in-range path between them, or (None, None, None)
\* after MAX_QUIZ_ATTEMPTS iterations without one, which equal draws allow
\* for every pool.
QuizResults(names, map, graph, d) ==
    LET pool == Range(EligiblePlayers(names, map, graph, Settings(d).min_teammates))
        searched_pairs == {pair \in pool \X pool :
                              /\ pair[1] # pair[2]
                              /\ Truthy(map, pair[1]) /\ Truthy(map, pair[2])}
    IN IF pool = {} THEN {}
       ELSE {Failure} \cup
            UNION {{Accepted(pair[1], pair[2], r.path) :
                       r \in {x \in FindSeparationPath(graph, map[pair[1]], map[pair[2]]) :
                                 ~x.is_none /\ InRange(x, d)}} :
                   pair \in searched_pairs}

\* initialize_quiz_state on a fresh session: the defaults of lines 74-85.
SessionInitial ==
    /\ quiz_active = FALSE
    /\ quiz_score = 0
    /\ quiz_total = 0
    /\ quiz_path = NoneResult
    /\ quiz_guessed = <<>>
    /\ quiz_hints_used = 0
    /\ quiz_hint_level = EmptyMap
    /\ quiz_player1 = 0
    /\ quiz_player2 = 0
    /\ last_call = [op |-> "initialize_quiz_state", ret |-> "None"]

\* `not path`: None and the empty list are false.
NotPath(result) == ~result.found \/ result.path = <<>>

\* [False] * k: no element for a negative k.
Hidden(k) == [i \in 1..k |-> FALSE]

\* Mutant of InitialFlags: the flag of the last position is left out.
InitialFlagsOneShort(p) == <<TRUE>> \o Hidden(Len(p) - 2)

\* [True] + [False] * (len(path) - 2) + [True]
InitialFlags(p) == <<TRUE>> \o Hidden(Len(p) - 2) \o <<TRUE>>

\* Mutant of StartNewQuiz: the session is cleared before the generator is
\* called, so a failure leaves no quiz behind.
StartNewQuizClearsFirst(d) ==
    /\ \E r \in QuizResults(display_names, display_to_id, teammate_graph, d) :
          IF NotPath(r)
          THEN /\ quiz_active' = FALSE
               /\ quiz_path' = NoneResult
               /\ quiz_guessed' = <<>>
               /\ last_call' = [op |-> "start_new_quiz", ret |-> "False"]
               /\ UNCHANGED <<quiz_score, quiz_total, quiz_hints_used, quiz_hint_level,
                              quiz_player1, quiz_player2>>
          ELSE /\ quiz_active' = TRUE
               /\ quiz_player1' = r.player1
               /\ quiz_player2' = r.player2
               /\ quiz_path' = PathResult(r.path)
               /\ quiz_guessed' = InitialFlags(r.path)
               /\ quiz_hints_used' = 0
               /\ quiz_hint_level' = EmptyMap
               /\ last_call' = [op |-> "start_new_quiz", ret |-> "True"]
               /\ UNCHANGED <<quiz_score, quiz_total>>
    /\ UNCHANGED <<data_vars, fsp_vars, quiz_vars, load_vars, player_vars, hint_vars>>

\* start_new_quiz(display_names, display_to_id, teammate_graph, d) with a
\* generator that returns: lines 104-119.
StartNewQuiz(d) ==
    /\ \E r \in QuizResults(display_names, display_to_id, teammate_graph, d) :
          IF NotPath(r)
          THEN /\ last_call' = [op |-> "start_new_quiz", ret |-> "False"]
               /\ UNCHANGED state_vars
          ELSE /\ quiz_active' = TRUE
               /\ quiz_player1' = r.player1
               /\ quiz_player2' = r.player2
               /\ quiz_path' = PathResult(r.path)
               /\ quiz_guessed' = InitialFlags(r.path)
               /\ quiz_hints_used' = 0
               /\ quiz_hint_level' = EmptyMap
               /\ last_call' = [op |-> "start_new_quiz", ret |-> "True"]
               /\ UNCHANGED <<quiz_score, quiz_total>>
    /\ UNCHANGED <<data_vars, fsp_vars, quiz_vars, load_vars, player_vars, hint_vars>>

\* start_new_quiz with a generator that raises: the exception passes through
\* line 104.
StartNewQuizRaises(d) ==
    /\ QuizRaises(display_names, display_to_id, teammate_graph, d)
    /\ last_call' = [op |-> "start_new_quiz", ret |-> "raised"]
    /\ UNCHANGED <<state_vars, data_vars, fsp_vars, quiz_vars, load_vars, player_vars, hint_vars>>

\* Mutant of GuessMatches: every guess counts as correct.
GuessMatchesAlways(guess_id, correct_id) == TRUE

\* The test of line 183.
GuessMatches(guess_id, correct_id) == guess_id = correct_id

\* Mutant of MarkRevealed: every position is marked.
MarkRevealedAll(flags, position) == [i \in DOMAIN flags |-> TRUE]

\* Mutant of MarkRevealed: the list is rebuilt with the one position marked.
MarkRevealedAlone(flags, position) == [i \in DOMAIN flags |-> i = position + 1]

\* quiz_guessed[position] = True; Python counts positions from 0.
MarkRevealed(flags, position) == [flags EXCEPT ![position + 1] = TRUE]

\* check_guess(guess_id, correct_id, position), position inside the list:
\* lines 183-187.
CheckGuess(guess_id, correct_id, position) ==
    /\ position < Len(quiz_guessed)
    /\ IF GuessMatches(guess_id, correct_id)
       THEN /\ quiz_score < MaxCount
            /\ quiz_guessed' = MarkRevealed(quiz_guessed, position)
            /\ quiz_score' = quiz_score + 1
            /\ last_call' = [op |-> "check_guess", ret |-> "True"]
       ELSE /\ last_call' = [op |-> "check_guess", ret |-> "False"]
            /\ UNCHANGED <<quiz_guessed, quiz_score>>
    /\ UNCHANGED <<quiz_active, quiz_total, quiz_path, quiz_hints_used, quiz_hint_level,
                   quiz_player1, quiz_player2>>
    /\ UNCHANGED <<data_vars, fsp_vars, quiz_vars, load_vars, player_vars, hint_vars>>

\* Mutant of RevealAnswer: the reveal is scored like a correct guess.
RevealAnswerScores(position) ==
    /\ position < Len(quiz_guessed)
    /\ quiz_total < MaxCount
    /\ quiz_score < MaxCount
    /\ quiz_guessed' = MarkRevealed(quiz_guessed, position)
    /\ quiz_total' = quiz_total + 1
    /\ quiz_score' = quiz_score + 1
    /\ last_call' = [op |-> "reveal_answer", ret |-> "None"]
    /\ UNCHANGED <<quiz_active, quiz_path, quiz_hints_used, quiz_hint_level,
                   quiz_player1, quiz_player2>>
    /\ UNCHANGED <<data_vars, fsp_vars, quiz_vars, load_vars, player_vars, hint_vars>>

\* reveal_answer(position), position inside the list: lines 192-193.
RevealAnswer(position) ==
    /\ position < Len(quiz_guessed)
    /\ quiz_total < MaxCount
    /\ quiz_guessed' = MarkRevealed(quiz_guessed, position)
    /\ quiz_total' = quiz_total + 1
    /\ last_call' = [op |-> "reveal_answer", ret |-> "None"]
    /\ UNCHANGED <<quiz_active, quiz_score, quiz_path, quiz_hints_used, quiz_hint_level,
                   quiz_player1, quiz_player2>>
    /\ UNCHANGED <<data_vars, fsp_vars, quiz_vars, load_vars, player_vars, hint_vars>>

\* complete_quiz(): lines 198-199.
CompleteQuiz ==
    /\ quiz_total < MaxCount
    /\ quiz_total' = quiz_total + 1
    /\ quiz_active' = FALSE
    /\ last_call' = [op |-> "complete_quiz", ret |-> "None"]
    /\ UNCHANGED <<quiz_score, quiz_path, quiz_guessed, quiz_hints_used, quiz_hint_level,
                   quiz_player1, quiz_player2>>
    /\ UNCHANGED <<data_vars, fsp_vars, quiz_vars, load_vars, player_vars, hint_vars>>

\* The hint button of a hidden position of the active quiz: the level of the
\* position rises by one, up to MAX_HINT_LEVELS, and the hint is counted.
UseHint(position) ==
    /\ quiz_active
    /\ position < Len(quiz_guessed)
    /\ ~quiz_guessed[position + 1]
    /\ quiz_hints_used < MaxHints
    /\ Count(quiz_hint_level, position) < MAX_HINT_LEVELS
    /\ quiz_hint_level' = [k \in DOMAIN quiz_hint_level \cup {position} |->
                              IF k = position THEN Count(quiz_hint_level, k) + 1
                              ELSE quiz_hint_level[k]]
    /\ quiz_hints_used' = quiz_hints_used + 1
    /\ last_call' = [op |-> "use_hint", ret |-> "None"]
    /\ UNCHANGED <<quiz_active, quiz_score, quiz_total, quiz_path, quiz_guessed,
                   quiz_player1, quiz_player2>>
    /\ UNCHANGED <<data_vars, fsp_vars, quiz_vars, load_vars, player_vars, hint_vars>>

(***************************************************************************)
(* The path finder on its own: any caller, any pair of IDs.                *)
(***************************************************************************)
EdgeSets == {E \in SUBSET {e \in Ids \X Ids : e[1] <= e[2]} : Cardinality(E) <= MaxEdges}

Graphs == {GraphOfRows(E) : E \in EdgeSets} \cup {OneWayGraph(E) : E \in EdgeSets}

\* The load is not followed: the stats index plays no part.
LoadOff == teammate_stats = EmptyStats /\ rows_read = <<>> /\ load_pc = "off"

\* No display table and no quiz call: the path finder is called directly.
QuizOff ==
    /\ display_names = <<>> /\ display_to_id = EmptyMap
    /\ difficulty = "Medium" /\ eligible_players = <<>> /\ attempt = 0
    /\ player1_display = 0 /\ player2_display = 0
    /\ quiz_pc = "off" /\ quiz_result = Failure
    /\ searched = FALSE

Init ==
    /\ teammate_graph \in Graphs
    /\ FspIdle
    /\ QuizOff
    /\ LoadOff
    /\ SessionInitial
    /\ PlayersOff

Call(a, b) ==
    /\ quiz_pc = "off"
    /\ fsp_pc \in {"idle", "done"}
    /\ FspBegin(a, b)
    /\ UNCHANGED <<data_vars, quiz_vars, load_vars, player_vars, hint_vars, session_vars>>

Search ==
    /\ FspStep
    /\ UNCHANGED <<display_names, display_to_id, quiz_vars, load_vars, player_vars, hint_vars, session_vars>>

Next ==
    \/ \E a, b \in Ids : Call(a, b)
    \/ Search

Spec == Init /\ [][Next]_vars

\* A call runs to completion before it returns (spec.md section 5): the
\* search is never left half-way.
FairSpec == Spec /\ WF_vars(Search)

(***************************************************************************)
(* The fixture of the end-to-end scenario: players A..E are 1..5, the      *)
(* teammate rows are A-B, B-C, C-D, and E has no row.                      *)
(***************************************************************************)
FixturePlayers == 1..5
FixtureRows == {<<1, 2>>, <<2, 3>>, <<3, 4>>}

InitFixture ==
    /\ teammate_graph = GraphOfRows(FixtureRows)
    /\ FspIdle
    /\ QuizOff
    /\ LoadOff
    /\ SessionInitial
    /\ PlayersOff

NextFixture ==
    \/ \E a, b \in FixturePlayers : Call(a, b)
    \/ Search

SpecFixture == InitFixture /\ [][NextFixture]_vars

(***************************************************************************)
(* The puzzle generator over loaded populations.  A chain population is    *)
(* the players first..first+n-1, each a teammate of the next; its display  *)
(* strings sort against the IDs.  A population may have one more player,   *)
(* who has a profile and no teammate row, so no key in the graph.          *)
(***************************************************************************)
ChainProfiles(first, n) == [i \in 1..n |-> <<first + i - 1, MaxChain + 2 - i>>]
ChainRows(first, n) == {<<first + i - 1, first + i>> : i \in 1..(n - 1)}

QuizIdle ==
    /\ difficulty = "Medium" /\ eligible_players = <<>> /\ attempt = 0
    /\ player1_display = 0 /\ player2_display = 0
    /\ quiz_pc = "idle" /\ quiz_result = Failure
    /\ searched = FALSE

InitQuiz ==
    /\ \E first \in 0..1, n \in 0..MaxChain, lone \in 0..1 :
          /\ n + lone <= MaxChain
          /\ teammate_graph = GraphOfRows(ChainRows(first, n))
          /\ display_names = LoadDisplayNames(ChainProfiles(first, n + lone))
          /\ display_to_id = LoadDisplayToId(ChainProfiles(first, n + lone))
    /\ FspIdle
    /\ QuizIdle
    /\ LoadOff
    /\ SessionInitial
    /\ PlayersOff

NextQuiz ==
    \/ \E d \in Difficulties : QuizCall(d)
    \/ \E p1, p2 \in Range(eligible_players) : QuizAttempt(p1, p2)
    \/ QuizChoiceFails
    \/ Search
    \/ QuizSearchReturns
    \/ QuizExhausted

SpecQuiz == InitQuiz /\ [][NextQuiz]_vars

(***************************************************************************)
(* The candidate pool over large populations: a clique of m players, all   *)
(* teammates of each other, and a second clique of k players.              *)
(***************************************************************************)
\* What load_data builds from rows that name every pair of the first m
\* players and every pair of the k players after them.
TwoCliques(first, m, k) ==
    LET big == first..(first + m - 1)
        small == (first + m)..(first + m + k - 1)
    IN [x \in big \cup small |-> IF x \in big THEN big \ {x} ELSE small \ {x}]

PoolProfiles(first, m, k) == [i \in 1..(m + k) |-> <<first + i - 1, i>>]

\* Second cliques just below and just above each profile's min_teammates.
SmallSizes ==
    {0} \cup UNION {{Settings(d).min_teammates, Settings(d).min_teammates + 1,
                     Settings(d).min_teammates + 2} : d \in Difficulties}

InitPool ==
    /\ \E first \in 0..1, j \in 0..MaxExtra, k \in SmallSizes :
          LET m == MIN_ELIGIBLE_PLAYERS - 2 + j
          IN /\ teammate_graph = TwoCliques(first, m, k)
             /\ display_names = LoadDisplayNames(PoolProfiles(first, m, k))
             /\ display_to_id = LoadDisplayToId(PoolProfiles(first, m, k))
    /\ FspIdle
    /\ QuizIdle
    /\ LoadOff
    /\ SessionInitial
    /\ PlayersOff

NextPool == \E d \in Difficulties : QuizCall(d)

SpecPool == InitPool /\ [][NextPool]_vars

(***************************************************************************)
(* load_data on a teammates table: the loop of lines 114-126 takes the     *)
(* rows in source order.  A table may repeat a pair, give it in both       *)
(* directions, pair a player with itself, and leave cells null.            *)
(***************************************************************************)
\* The generator is not followed step by step.
GeneratorOff ==
    /\ difficulty = "Medium" /\ eligible_players = <<>> /\ attempt = 0
    /\ player1_display = 0 /\ player2_display = 0
    /\ quiz_pc = "off" /\ quiz_result = Failure
    /\ searched = FALSE

LoadIds == 0..MaxLoadId

\* The minutes_played_with and joint_goal_participation cells of a row.
StatsCells == {<<NullCell, NullCell>>, <<(<<90>>), (<<1>>)>>, <<(<<180>>), NullCell>>}

TeammateRows == {<<a, b, c[1], c[2]>> : a \in LoadIds, b \in LoadIds, c \in StatsCells}

\* The profiles loop is over; the teammate loop is about to take its first row.
InitLoad ==
    /\ teammate_graph = EmptyGraph
    /\ teammate_stats = EmptyStats
    /\ rows_read = <<>>
    /\ load_pc = "rows"
    /\ display_names = LoadDisplayNames(ChainProfiles(0, MaxLoadId + 1))
    /\ display_to_id = LoadDisplayToId(ChainProfiles(0, MaxLoadId + 1))
    /\ FspIdle
    /\ GeneratorOff
    /\ SessionInitial
    /\ PlayersOff

NextLoad ==
    \/ \E row \in TeammateRows : LoadRow(row)
    \/ LoadReturn

SpecLoad == InitLoad /\ [][NextLoad]_vars

(***************************************************************************)
(* A quiz session over the fixture population, or over empty tables: any   *)
(* sequence of calls of the session functions, each run to its end.  A     *)
(* guess is any player of the population; the correct ID handed to         *)
(* check_guess is the ID the stored path has at the position.              *)
(***************************************************************************)
FixtureProfiles == ChainProfiles(1, Cardinality(FixturePlayers))

\* The positions of the stored path, counted from 0.
Positions == IF quiz_path.is_none THEN {} ELSE 0..(Len(quiz_path.path) - 1)

InitSession ==
    /\ \E rows \in {FixtureRows, {}} :
          /\ teammate_graph = GraphOfRows(rows)
          /\ display_names = LoadDisplayNames(IF rows = {} THEN <<>> ELSE FixtureProfiles)
          /\ display_to_id = LoadDisplayToId(IF rows = {} THEN <<>> ELSE FixtureProfiles)
    /\ FspIdle
    /\ GeneratorOff
    /\ LoadOff
    /\ SessionInitial
    /\ PlayersOff

NextSession ==
    \/ \E d \in Difficulties : StartNewQuiz(d)
    \/ \E d \in Difficulties : StartNewQuizRaises(d)
    \/ \E g \in FixturePlayers, position \in Positions :
          CheckGuess(g, quiz_path.path[position + 1], position)
    \/ \E position \in Positions : RevealAnswer(position)
    \/ CompleteQuiz
    \/ \E position \in Positions : UseHint(position)

SpecSession == InitSession /\ [][NextSession]_vars

(***************************************************************************)
(* load_data on player tables of at most MaxPlayers rows, the row i with   *)
(* the player ID i.  The names are "Ab", "Ab (1)" and "(1)", or missing;   *)
(* the club is "FC" or missing; the age is 30, 0 or None; the citizenship  *)
(* and the position are "DE" and "GK", or both missing.                    *)
(***************************************************************************)
PlayerNames == {NullCell, <<(<<65, 98>>)>>, <<(<<65, 98, 32, 40, 49, 41>>)>>,
                <<(<<40, 49, 41>>)>>}

PlayerCells ==
    {[player_name |-> n, current_club_name |-> c, age |-> a,
      citizenship |-> o[1], position |-> o[2]] :
        n \in PlayerNames, c \in {NullCell, <<(<<70, 67>>)>>},
        a \in {NullCell, <<0>>, <<30>>},
        o \in {<<NullCell, NullCell>>, <<(<<(<<68, 69>>)>>), (<<(<<71, 75>>)>>)>>}}

PlayerRow(player_id, cells) ==
    [player_id |-> player_id, player_name |-> cells.player_name,
     current_club_name |-> cells.current_club_name, age |-> cells.age,
     citizenship |-> cells.citizenship, position |-> cells.position]

\* The player tables of at most n rows.
PlayerTables(n) ==
    UNION {{[i \in 1..k |-> PlayerRow(i, f[i])] : f \in [1..k -> PlayerCells]} : k \in 0..n}

\* The player table has been read, nothing else is followed.
PlayersRead(n) ==
    /\ teammate_graph = EmptyGraph
    /\ FspIdle
    /\ QuizOff
    /\ LoadOff
    /\ SessionInitial
    /\ df_players \in PlayerTables(n)
    /\ players_pc = "read"
    /\ id_to_display = EmptyMap
    /\ player_id_to_name = EmptyMap
    /\ player_details = EmptyMap
    /\ hint_call = [player_id |-> 0, hint_level |-> 0]
    /\ hint_out = [pc |-> "off"]

InitPlayers == PlayersRead(MaxPlayers)

NextPlayers == LoadPlayers

SpecPlayers == InitPlayers /\ [][NextPlayers]_vars

(***************************************************************************)
(* build_hint_text on the tables load_data makes of at most one player     *)
(* row, for the player 1 of the row and for a player 2 no table has, at    *)
(* the hint levels 0..MaxLevel.                                            *)
(***************************************************************************)
HintIds == {1, 2}

HintLevels == 0..MaxLevel

InitHint == PlayersRead(1)

NextHint ==
    \/ LoadPlayers
    \/ \E player_id \in HintIds, hint_level \in HintLevels :
          BuildHintText(player_id, hint_level)

SpecHint == InitHint /\ [][NextHint]_vars

(***************************************************************************)
(* Reference definitions for the claims                                    *)
(***************************************************************************)
\* Every edge is held in both directions.
Symmetric(graph) ==
    \A x \in DOMAIN graph : \A y \in graph[x] : x \in Neighbors(graph, y)

\* The IDs at most k edges away from a.
RECURSIVE Within(_, _, _)
Within(graph, a, k) ==
    IF k = 0 THEN {a}
    ELSE LET w == Within(graph, a, k - 1)
         IN w \cup UNION {Neighbors(graph, x) : x \in w}

\* All IDs of a graph: its keys and whatever the neighbour sets name.
Nodes(graph) == DOMAIN graph \cup UNION {graph[x] : x \in DOMAIN graph}

Reachable(graph, a, b) == b \in Within(graph, a, Cardinality(Nodes(graph)))

\* The graph distance, for b reachable from a.
Distance(graph, a, b) ==
    CHOOSE k \in 0..Cardinality(Nodes(graph)) :
        /\ b \in Within(graph, a, k)
        /\ \A j \in 0..(k - 1) : b \notin Within(graph, a, j)

Returned == fsp_pc = "done"

\* C1: on a symmetric graph, for a # b with b reachable from a, the call
\* returns a path whose degree count (elements minus 1) is the graph distance.
C1_ShortestPath ==
    (Returned /\ Symmetric(teammate_graph) /\ start_id # end_id
        /\ Reachable(teammate_graph, start_id, end_id))
    => /\ ~fsp_result.is_none
       /\ Len(fsp_result.path) - 1 = Distance(teammate_graph, start_id, end_id)

\* A search that had a shorter and a longer route to choose from.
C1_Witness ==
    /\ Returned /\ Symmetric(teammate_graph) /\ start_id # end_id
    /\ ~fsp_result.is_none
    /\ Distance(teammate_graph, start_id, end_id) >= 2
    /\ \E x \in Neighbors(teammate_graph, start_id) :
          x # end_id /\ Distance(teammate_graph, x, end_id)
                          >= Distance(teammate_graph, start_id, end_id)

\* C2: find_separation_path(p, p) returns [p] and reads no neighbour set,
\* also for a p that is no key of the graph.
C2_SamePlayer ==
    (Returned /\ start_id = end_id)
    => /\ fsp_result = PathResult(<<start_id>>)
       /\ reads = 0

C2_Witness ==
    /\ Returned /\ start_id = end_id
    /\ start_id \notin DOMAIN teammate_graph
    /\ teammate_graph # EmptyGraph

\* C3: for a # b with b not reachable from a the call returns None, never a path.
C3_Unreachable ==
    (Returned /\ start_id # end_id
        /\ ~Reachable(teammate_graph, start_id, end_id))
    => fsp_result = NoneResult

\* Two clusters: both players have teammates, and no route joins them.
C3_Witness ==
    /\ Returned /\ start_id # end_id
    /\ ~Reachable(teammate_graph, start_id, end_id)
    /\ Neighbors(teammate_graph, start_id) \ {start_id} # {}
    /\ Neighbors(teammate_graph, end_id) \ {end_id} # {}
    /\ fsp_result = NoneResult

\* C4: a returned path is non-empty, starts at a, ends at b, and each element
\* is in the neighbour set of the one before it; for a = b it is [a].
C4_PathWellFormed ==
    (Returned /\ ~fsp_result.is_none)
    => LET p == fsp_result.path
       IN /\ Len(p) >= 1
          /\ p[1] = start_id
          /\ p[Len(p)] = end_id
          /\ \A i \in 1..(Len(p) - 1) : p[i + 1] \in Neighbors(teammate_graph, p[i])
          /\ (start_id = end_id => p = <<start_id>>)

C4_Witness ==
    /\ Returned /\ ~fsp_result.is_none
    /\ Len(fsp_result.path) >= 3

\* C5: the search terminates on every graph, and no ID is put on the queue
\* more than once.
C5_Terminates ==
    /\ [](\A i \in DOMAIN enqueued : enqueued[i] <= 1)
    /\ (fsp_pc \in {"while", "for"}) ~> (fsp_pc = "done")

\* A search that exhausted a component with a cycle or a self-loop in it.
C5_Witness ==
    /\ Returned /\ start_id # end_id /\ fsp_result = NoneResult
    /\ reads >= 3
    /\ start_id \in Neighbors(teammate_graph, start_id)

\* C6: on the fixture, A to D is exactly [A, B, C, D], A to A is [A], and
\* A to E is None.
C6_Fixture ==
    Returned =>
       /\ (start_id = 1 /\ end_id = 4 => fsp_result = PathResult(<<1, 2, 3, 4>>))
       /\ (start_id = 1 /\ end_id = 1 => fsp_result = PathResult(<<1>>))
       /\ (start_id = 1 /\ end_id = 5 => fsp_result = NoneResult)

C6_Witness ==
    /\ Returned /\ start_id = 1 /\ end_id = 4
    /\ fsp_result = PathResult(<<1, 2, 3, 4>>)

(***************************************************************************)
(* The puzzle generator                                                    *)
(***************************************************************************)
QuizReturned == quiz_pc = "returned"
QuizEnded == quiz_pc \in {"returned", "error"}

\* The degree count between the players of two display strings lies in the
\* range of difficulty d.
PairInRange(d1, d2, d) ==
    LET a == display_to_id[d1]
        b == display_to_id[d2]
    IN /\ Reachable(teammate_graph, a, b)
       /\ Settings(d).min_degrees <= Distance(teammate_graph, a, b)
       /\ Distance(teammate_graph, a, b) <= Settings(d).max_degrees

\* C7: an accepted result has a degree count within [min_degrees, max_degrees]
\* of the profile; for Easy (2 to 3) it has 2 or 3 degrees.
C7_DegreesInRange ==
    (QuizReturned /\ quiz_result.found)
    => /\ Settings(difficulty).min_degrees <= Len(quiz_result.path) - 1
       /\ Len(quiz_result.path) - 1 <= Settings(difficulty).max_degrees
       /\ (difficulty = "Easy" => Len(quiz_result.path) - 1 \in {2, 3})

C7_Witness ==
    /\ QuizReturned /\ quiz_result.found
    /\ difficulty = "Easy"
    /\ Len(quiz_result.path) - 1 = 3

\* C8: when no pair of candidates has a degree count in the profile's range,
\* the call ends after at most MAX_QUIZ_ATTEMPTS attempts, each of which calls
\* the path finder at most once, by returning (None, None, None).
C8_FailureWithinBudget ==
    (QuizEnded /\ \A d1, d2 \in Range(eligible_players) :
                      d1 # d2 => ~PairInRange(d1, d2, difficulty))
    => /\ QuizReturned
       /\ quiz_result = Failure
       /\ attempt <= MAX_QUIZ_ATTEMPTS

\* The same for a pool that is not empty.
C8_FailureWithinBudgetNonEmpty ==
    (QuizEnded /\ eligible_players # <<>>
        /\ \A d1, d2 \in Range(eligible_players) :
               d1 # d2 => ~PairInRange(d1, d2, difficulty))
    => /\ QuizReturned
       /\ quiz_result = Failure
       /\ attempt = MAX_QUIZ_ATTEMPTS

\* The display strings of the players with at least min_teammates teammates.
WellConnected(d) ==
    {n \in Range(display_names) :
        Cardinality(Neighbors(teammate_graph, display_to_id[n]))
            >= Settings(d).min_teammates}

\* C9: the pool is exactly the players with at least min_teammates
\* teammates, or the whole population when those are fewer than
\* MIN_ELIGIBLE_PLAYERS.
C9_PoolIsFiltered ==
    quiz_pc = "loop"
    => Range(eligible_players) =
          IF Cardinality(WellConnected(difficulty)) < MIN_ELIGIBLE_PLAYERS
          THEN Range(display_names)
          ELSE WellConnected(difficulty)

\* The same for populations without a player of ID 0.
C9_PoolIsFilteredNoZero ==
    (quiz_pc = "loop" /\ \A n \in Range(display_names) : display_to_id[n] # 0)
    => Range(eligible_players) =
          IF Cardinality(WellConnected(difficulty)) < MIN_ELIGIBLE_PLAYERS
          THEN Range(display_names)
          ELSE WellConnected(difficulty)

\* The loop has drawn the two candidates of an iteration.
Drawn == attempt >= 1 /\ quiz_pc \in {"loop", "search", "returned"}

\* C10: an iteration with identical draws makes no path search; one with
\* distinct draws, whatever their IDs, searches between their IDs, and returns
\* the pair and its path at once when the degree count is in range.
C10_DistinctPairsSearched ==
    Drawn
    => /\ (player1_display = player2_display => ~searched)
       /\ (player1_display # player2_display => searched)
       /\ (quiz_pc = "search" =>
              /\ start_id = display_to_id[player1_display]
              /\ end_id = display_to_id[player2_display])
       /\ (searched /\ quiz_pc # "search"
              /\ PairInRange(player1_display, player2_display, difficulty))
          => /\ QuizReturned
             /\ quiz_result.found
             /\ quiz_result.player1 = player1_display
             /\ quiz_result.player2 = player2_display
             /\ Len(quiz_result.path) - 1 =
                    Distance(teammate_graph, display_to_id[player1_display],
                             display_to_id[player2_display])

\* The same for draws whose IDs are both different from 0.
C10_DistinctPairsSearchedNoZero ==
    (/\ Drawn
     /\ display_to_id[player1_display] # 0
     /\ display_to_id[player2_display] # 0)
    => C10_DistinctPairsSearched

(***************************************************************************)
(* load_data                                                               *)
(***************************************************************************)
\* Rows r and q name the same unordered pair.
SamePair(r, q) == {r[1], r[2]} = {q[1], q[2]}

\* The position of the last row read that names the pair of row i.
LastOfPair(i) ==
    CHOOSE j \in DOMAIN rows_read :
        /\ SamePair(rows_read[i], rows_read[j])
        /\ \A k \in DOMAIN rows_read : SamePair(rows_read[i], rows_read[k]) => k <= j

\* C11: after any sequence of teammate rows the adjacency structure holds
\* every row (a, b) read in both directions, b in adjacency[a] and a in
\* adjacency[b], and is symmetric.
C11_AdjacencySymmetric ==
    /\ \A i \in DOMAIN rows_read :
          /\ rows_read[i][2] \in Neighbors(teammate_graph, rows_read[i][1])
          /\ rows_read[i][1] \in Neighbors(teammate_graph, rows_read[i][2])
    /\ Symmetric(teammate_graph)

\* load_data returned for a table with a row between two different players.
C11_Witness ==
    /\ load_pc = "returned"
    /\ \E i \in DOMAIN rows_read : rows_read[i][1] # rows_read[i][2]
    /\ 0 \in Neighbors(teammate_graph, 1) /\ 1 \in Neighbors(teammate_graph, 0)

\* C12: after any sequence of teammate rows, duplicates and reversed rows
\* included, every pair (a, b) with an entry in the stats index has an entry
\* (b, a) too, with the same minutes and the same goals.
C12_StatsSymmetric ==
    \A key \in DOMAIN teammate_stats :
        /\ <<key[2], key[1]>> \in DOMAIN teammate_stats
        /\ teammate_stats[<<key[2], key[1]>>].minutes = teammate_stats[key].minutes
        /\ teammate_stats[<<key[2], key[1]>>].goals = teammate_stats[key].goals

\* load_data returned for a table that names a pair twice, once in each
\* direction, with different cells.
C12_Witness ==
    /\ load_pc = "returned"
    /\ \E i, j \in DOMAIN rows_read :
          /\ i < j
          /\ rows_read[i][1] # rows_read[i][2]
          /\ rows_read[j][1] = rows_read[i][2]
          /\ rows_read[j][2] = rows_read[i][1]
          /\ RowStats(rows_read[i]) # RowStats(rows_read[j])

\* C13: for every a and every b in adjacency[a], the stats index has an entry
\* for (a, b) and one for (b, a); the numbers in it may be null.
C13_EdgesHaveStats ==
    \A a \in DOMAIN teammate_graph : \A b \in teammate_graph[a] :
        /\ <<a, b>> \in DOMAIN teammate_stats
        /\ <<b, a>> \in DOMAIN teammate_stats

\* load_data returned with an edge whose stats entry holds nulls only.
C13_Witness ==
    /\ load_pc = "returned"
    /\ \E a \in DOMAIN teammate_graph : \E b \in teammate_graph[a] :
          /\ a # b
          /\ <<a, b>> \in DOMAIN teammate_stats
          /\ teammate_stats[<<a, b>>].minutes = NullCell
          /\ teammate_stats[<<a, b>>].goals = NullCell

\* C14: rows that name the same unordered pair are not merged: both entries
\* of the pair hold the minutes and goals of the last of these rows in source
\* order, whichever direction it was written in; and the index has no other
\* entries than those of the rows read.
C14_LastRowWins ==
    /\ \A i \in DOMAIN rows_read :
          LET last == rows_read[LastOfPair(i)]
          IN /\ <<last[1], last[2]>> \in DOMAIN teammate_stats
             /\ <<last[2], last[1]>> \in DOMAIN teammate_stats
             /\ teammate_stats[<<last[1], last[2]>>] = RowStats(last)
             /\ teammate_stats[<<last[2], last[1]>>] = RowStats(last)
    /\ \A key \in DOMAIN teammate_stats :
          \E i \in DOMAIN rows_read : {key[1], key[2]} = {rows_read[i][1], rows_read[i][2]}

\* load_data returned for a table whose last row of a pair is written in the
\* other direction than an earlier one and has other cells: the entry of the
\* earlier row's direction holds the cells of the last row.
C14_Witness ==
    /\ load_pc = "returned"
    /\ \E i, j \in DOMAIN rows_read :
          /\ i < j /\ j = LastOfPair(i)
          /\ rows_read[i][1] # rows_read[i][2]
          /\ rows_read[j][1] = rows_read[i][2]
          /\ rows_read[j][2] = rows_read[i][1]
          /\ RowStats(rows_read[i]) # RowStats(rows_read[j])
          /\ teammate_stats[<<rows_read[i][1], rows_read[i][2]>>] = RowStats(rows_read[j])

(***************************************************************************)
(* The loaded structures under the path finder and the generator           *)
(***************************************************************************)
\* C15: no step of find_separation_path or of get_random_quiz_players changes
\* the adjacency structure (its keys and every neighbour set), the display
\* list or the display-to-ID mapping, lookups of IDs without a key included.
C15_LoadedStructuresReadOnly ==
    [][/\ teammate_graph' = teammate_graph
       /\ display_names' = display_names
       /\ display_to_id' = display_to_id]_vars

\* A second iteration of the generator has had the path finder search from a
\* player that has no key in the graph, and the search has returned.
C15_Witness ==
    /\ quiz_pc = "search" /\ attempt >= 2
    /\ Returned /\ reads >= 1
    /\ start_id \notin DOMAIN teammate_graph

\* The players of the display list that have no key in the graph.
NoEntry == {d \in Range(display_names) : display_to_id[d] \notin DOMAIN teammate_graph}

\* C16: an ID without a key in the graph counts as a player without
\* teammates and raises nothing.  A search from such an ID to another one
\* returns None after the one lookup; the ID dequeued last, when it has no
\* key, gives the for loop nothing to iterate over; the pool filter counts
\* zero connections for it and so never selects it; and the generator ends in
\* an error only when the pool is empty.
C16_MissingKeyIsEmpty ==
    /\ (Returned /\ start_id # end_id /\ start_id \notin DOMAIN teammate_graph)
          => fsp_result = NoneResult /\ reads = 1
    /\ (Returned /\ reads >= 1 /\ current_id \notin DOMAIN teammate_graph)
          => fsp_result = NoneResult
    /\ (fsp_pc \in {"while", "for"} /\ reads >= 1
          /\ current_id \notin DOMAIN teammate_graph)
          => neighbors_left = {} /\ fsp_pc = "while"
    /\ \A d \in NoEntry :
          /\ Cardinality(Neighbors(teammate_graph, display_to_id[d])) = 0
          /\ d \notin Range(FilterEligible(display_names, display_to_id, teammate_graph,
                                           Settings(difficulty).min_teammates))
    /\ quiz_pc = "error" => eligible_players = <<>>

\* The generator drew a player without a key and one with a key, and the
\* search from the first to the second has returned None.
C16_Witness ==
    /\ quiz_pc = "search" /\ Returned
    /\ player1_display \in NoEntry
    /\ start_id = display_to_id[player1_display]
    /\ end_id \in DOMAIN teammate_graph
    /\ fsp_result = NoneResult

(***************************************************************************)
(* The quiz session                                                        *)
(***************************************************************************)
\* The step-by-step generator ends only in results the one-step account of
\* it allows: what it returns is in QuizResults, and it raises only when
\* QuizRaises holds.
GeneratorAccount ==
    /\ QuizReturned =>
          quiz_result \in QuizResults(display_names, display_to_id, teammate_graph, difficulty)
    /\ quiz_pc = "error" =>
          QuizRaises(display_names, display_to_id, teammate_graph, difficulty)

\* The session function called last, and what it returned.
Called(op, ret) == last_call = [op |-> op, ret |-> ret]

\* The ID the stored path has at a position counted from 0.
CorrectId(position) == quiz_path.path[position + 1]

\* Position i of the list, counted from 1, is an end of the path.
Endpoint(i) == i = 1 \/ i = Len(quiz_guessed)

\* C17: when start_new_quiz has returned True the session is active, the
\* stored path and endpoints are a triple the generator can return, the flag
\* list has one flag per position of the path, the first and the last flag
\* are set, every flag between them is clear, the hints-used counter is 0 and
\* the hint-level map is empty.
C17_StartInitialises ==
    Called("start_new_quiz", "True")
    => /\ quiz_active
       /\ ~quiz_path.is_none
       /\ \E d \in Difficulties :
             Accepted(quiz_player1, quiz_player2, quiz_path.path)
                \in QuizResults(display_names, display_to_id, teammate_graph, d)
       /\ Len(quiz_guessed) = Len(quiz_path.path)
       /\ \A i \in DOMAIN quiz_guessed : quiz_guessed[i] <=> Endpoint(i)
       /\ quiz_hints_used = 0
       /\ quiz_hint_level = EmptyMap

\* A quiz with two intermediate positions has been started in a session that
\* has scored and answered before.
C17_Witness ==
    /\ Called("start_new_quiz", "True")
    /\ Len(quiz_path.path) = 4
    /\ quiz_score >= 1 /\ quiz_total >= 1

\* C18: while the quiz is active, check_guess with the ID of the position as
\* the guess sets the flag of the position, adds exactly one to the score and
\* returns True; the total answered and the flags of the other positions,
\* like the rest of the session, stay as they are.
C18_CorrectGuess ==
    [][\A position \in Positions :
          (quiz_active /\ CheckGuess(CorrectId(position), CorrectId(position), position))
          => /\ Len(quiz_guessed') = Len(quiz_guessed)
             /\ quiz_guessed'[position + 1]
             /\ \A i \in DOMAIN quiz_guessed :
                   i # position + 1 => quiz_guessed'[i] = quiz_guessed[i]
             /\ quiz_score' = quiz_score + 1
             /\ quiz_total' = quiz_total
             /\ last_call'.ret = "True"
             /\ UNCHANGED <<quiz_active, quiz_path, quiz_hints_used, quiz_hint_level,
                            quiz_player1, quiz_player2>>]_vars

\* A correct guess has revealed the first intermediate position of an active
\* quiz whose second one is still hidden, and nothing has been answered.
C18_Witness ==
    /\ Called("check_guess", "True")
    /\ quiz_active
    /\ Len(quiz_guessed) = 4 /\ quiz_guessed[2] /\ ~quiz_guessed[3]
    /\ quiz_score = 1 /\ quiz_total = 0

\* C19: check_guess with a guess that is not the ID of the position returns
\* False and changes nothing of the session: flags, score, total answered,
\* hint counters, path, endpoints and active flag.
C19_WrongGuess ==
    [][\A guess_id \in FixturePlayers, position \in Positions :
          (guess_id # CorrectId(position)
              /\ CheckGuess(guess_id, CorrectId(position), position))
          => /\ last_call'.ret = "False"
             /\ UNCHANGED state_vars]_vars

\* A wrong guess has been made in an active quiz that has a hidden position,
\* a hint used and a point scored.
C19_Witness ==
    /\ Called("check_guess", "False")
    /\ quiz_active
    /\ \E i \in DOMAIN quiz_guessed : ~quiz_guessed[i]
    /\ quiz_hints_used >= 1 /\ quiz_score >= 1

\* C20: reveal_answer(position) sets the flag of the position and adds
\* exactly one to the total answered; the score, the flags of the other
\* positions, the path and the active flag stay as they are.
C20_Reveal ==
    [][\A position \in Positions :
          RevealAnswer(position)
          => /\ Len(quiz_guessed') = Len(quiz_guessed)
             /\ quiz_guessed'[position + 1]
             /\ \A i \in DOMAIN quiz_guessed :
                   i # position + 1 => quiz_guessed'[i] = quiz_guessed[i]
             /\ quiz_total' = quiz_total + 1
             /\ UNCHANGED <<quiz_score, quiz_path, quiz_active>>]_vars

\* The second intermediate position of an active quiz has been revealed while
\* the first one is hidden: one answered, nothing scored.
C20_Witness ==
    /\ Called("reveal_answer", "None")
    /\ quiz_active
    /\ Len(quiz_guessed) = 4 /\ ~quiz_guessed[2] /\ quiz_guessed[3]
    /\ quiz_score = 0 /\ quiz_total = 1

\* Every position between the two ends of the path is revealed.
AllRevealed == \A i \in DOMAIN quiz_guessed : quiz_guessed[i]

\* C21: complete_quiz adds exactly one to the total answered and clears the
\* active flag, and it deactivates the session only when every intermediate
\* position is revealed.
C21_CompleteWhenAllRevealed ==
    [][CompleteQuiz
          => /\ quiz_total' = quiz_total + 1
             /\ ~quiz_active'
             /\ AllRevealed]_vars

\* The part of C21 about the effect of the call alone: the total answered
\* rises by exactly one, the active flag is cleared, nothing else changes.
C21_CompleteEffect ==
    [][CompleteQuiz
          => /\ quiz_total' = quiz_total + 1
             /\ ~quiz_active'
             /\ UNCHANGED <<quiz_score, quiz_path, quiz_guessed, quiz_hints_used,
                            quiz_hint_level, quiz_player1, quiz_player2>>]_vars

(***************************************************************************)
(* The hints                                                               *)
(***************************************************************************)
\* The list s is the beginning of the list t.
IsPrefix(s, t) == Len(s) <= Len(t) /\ SubSeq(t, 1, Len(s)) = s

\* What the level L, from 1 to 4, adds to the hints.
AttributeOfLevel == <<"Nationality", "Club", "Position", "Age">>

\* build_hint_text has returned from the call with these arguments.
HintReturned(player_id, hint_level) ==
    /\ hint_out.pc = "returned"
    /\ hint_call = [player_id |-> player_id, hint_level |-> hint_level]

C23_HeaderWithinMaximum ==
    hint_out.pc = "returned"
    => /\ hint_out.header.number = hint_call.hint_level + 1
       /\ hint_out.header.number <= MAX_HINT_LEVELS
       /\ hint_out.remaining = MAX_HINT_LEVELS - hint_out.header.number
       /\ hint_out.header.all_revealed <=> hint_out.remaining = 0

\* The part of C23 that holds: at the levels below MAX_HINT_LEVELS the header
\* is as C23 says, and at every level it says that all hints are revealed
\* exactly when the number remaining is zero.
C23_HeaderBelowMaximum ==
    hint_out.pc = "returned"
    => /\ hint_out.header.number = hint_call.hint_level + 1
       /\ hint_out.header.all_revealed <=> hint_out.remaining = 0
       /\ hint_call.hint_level < MAX_HINT_LEVELS
          => /\ hint_out.header.number <= MAX_HINT_LEVELS
             /\ hint_out.remaining = MAX_HINT_LEVELS - hint_out.header.number

(***************************************************************************)
(* The display table                                                       *)
(***************************************************************************)
\* The rows load_data keeps: two of them have the same display string.
SharedDisplay ==
    \E i, j \in DOMAIN DropNa(df_players) :
       i # j /\ RowDisplayName(DropNa(df_players)[i]) = RowDisplayName(DropNa(df_players)[j])

\* C24: when load_data has returned, display_to_id[id_to_display[p]] = p for
\* every loaded player p, and id_to_display[display_to_id[d]] = d for every
\* display string d of the display list, whatever names, clubs and ages the
\* players share.
C24_DisplayBijection ==
    players_pc = "returned"
    => /\ \A p \in DOMAIN id_to_display :
             /\ id_to_display[p] \in DOMAIN display_to_id
             /\ display_to_id[id_to_display[p]] = p
       /\ \A d \in Range(display_names) :
             /\ d \in DOMAIN display_to_id
             /\ display_to_id[d] \in DOMAIN id_to_display
             /\ id_to_display[display_to_id[d]] = d

\* The part of C24 that holds: the round trip from every display string of
\* the list, and the round trip from every player while no two rows have the
\* same display string.
C24_DisplayRoundTrip ==
    players_pc = "returned"
    => /\ \A d \in Range(display_names) :
             /\ d \in DOMAIN display_to_id
             /\ display_to_id[d] \in DOMAIN id_to_display
             /\ id_to_display[display_to_id[d]] = d
       /\ ~SharedDisplay
          => \A p \in DOMAIN id_to_display :
                /\ id_to_display[p] \in DOMAIN display_to_id
                /\ display_to_id[id_to_display[p]] = p

\* C25: a start_new_quiz that returns False, the generator having reported
\* Failure, leaves the active flag, the path, the endpoints, the revealed
\* flags, the hint counters, the score and the total as they were; and the
\* session goes from inactive to active only in a start_new_quiz that returns
\* True.
C25_FailureLeavesSession ==
    [][/\ last_call' = [op |-> "start_new_quiz", ret |-> "False"]
             => UNCHANGED state_vars
       /\ (~quiz_active /\ quiz_active')
             => last_call' = [op |-> "start_new_quiz", ret |-> "True"]]_vars

\* start_new_quiz has returned False in an active quiz that has a revealed
\* intermediate position, a hint used, a point scored and an answer counted.
C25_Witness ==
    /\ Called("start_new_quiz", "False")
    /\ quiz_active
    /\ Len(quiz_guessed) = 4 /\ quiz_guessed[2] /\ ~quiz_guessed[3]
    /\ quiz_hints_used >= 1 /\ quiz_score >= 1 /\ quiz_total >= 1

(***************************************************************************)
(* The generator's results                                                 *)
(***************************************************************************)
\* C26: an accepted triple (player1, player2, path) has two different display
\* strings, both keys of display_to_id; the path starts at
\* display_to_id[player1], ends at display_to_id[player2], steps from each
\* element to one of its neighbours, and has as many degrees as the graph
\* distance between the two IDs.
C26_AcceptedTriple ==
    (QuizReturned /\ quiz_result.found)
    => /\ quiz_result.player1 # quiz_result.player2
       /\ quiz_result.player1 \in DOMAIN display_to_id
       /\ quiz_result.player2 \in DOMAIN display_to_id
       /\ quiz_result.path # <<>>
       /\ quiz_result.path[1] = display_to_id[quiz_result.player1]
       /\ quiz_result.path[Len(quiz_result.path)] = display_to_id[quiz_result.player2]
       /\ \A i \in 1..(Len(quiz_result.path) - 1) :
             quiz_result.path[i + 1] \in Neighbors(teammate_graph, quiz_result.path[i])
       /\ Reachable(teammate_graph, quiz_result.path[1],
                    quiz_result.path[Len(quiz_result.path)])
       /\ Len(quiz_result.path) - 1
             = Distance(teammate_graph, display_to_id[quiz_result.player1],
                        display_to_id[quiz_result.player2])

\* A Hard triple has been accepted whose first display string is the larger
\* one: its path has five elements.
C26_Witness ==
    /\ QuizReturned /\ quiz_result.found
    /\ difficulty = "Hard"
    /\ quiz_result.player1 > quiz_result.player2
    /\ Len(quiz_result.path) = 5

\* C27: for every population, the empty one and the one of a single player
\* included, a call of get_random_quiz_players that has ended has returned an
\* accepted triple or (None, None, None); it has not ended in an error.
C27_ReturnsTriple ==
    QuizEnded
    => /\ QuizReturned
       /\ quiz_result = Failure \/ quiz_result.found

\* The part of C27 that holds: the same for every population that has a
\* player; the population of a single player ends with (None, None, None).
C27_ReturnsTripleNonEmpty ==
    (QuizEnded /\ display_names # <<>>)
    => /\ QuizReturned
       /\ quiz_result = Failure \/ quiz_result.found
       /\ Len(display_names) = 1 => quiz_result = Failure

(***************************************************************************)
(* The direction of a query                                                *)
(***************************************************************************)
\* C28: on a symmetric graph, a call find_separation_path(a, b) that has
\* returned has returned one of the results a shortest-path search can give,
\* and whatever the call find_separation_path(b, a) can return is None exactly
\* when the result for (a, b) is None and is otherwise a path with the same
\* number of elements.
C28_DirectionIndependent ==
    (Returned /\ Symmetric(teammate_graph))
    => /\ fsp_result \in FindSeparationPath(teammate_graph, start_id, end_id)
       /\ \A back \in FindSeparationPath(teammate_graph, end_id, start_id) :
             /\ back.is_none <=> fsp_result.is_none
             /\ ~back.is_none => Len(back.path) = Len(fsp_result.path)

\* A query from the larger to the smaller ID has returned a path of three
\* players on a symmetric graph in which another query returns None.
C28_Witness ==
    /\ Returned /\ Symmetric(teammate_graph)
    /\ start_id > end_id
    /\ ~fsp_result.is_none /\ Len(fsp_result.path) = 3
    /\ \E a, b \in Ids : ~Reachable(teammate_graph, a, b)

(***************************************************************************)
(* The revealed flags and the score within one quiz                        *)
(***************************************************************************)
\* The step is a call of check_guess, reveal_answer or complete_quiz.
PlayStep == last_call'.op \in {"check_guess", "reveal_answer", "complete_quiz"}

\* C29: once start_new_quiz has succeeded the flag list has one flag per
\* position of the path and the flags of the two ends are set, and no call of
\* check_guess, reveal_answer or complete_quiz at a position of the path
\* changes the length of the list or clears a flag that is set.
C29_FlagsMonotone ==
    /\ [](~quiz_path.is_none
             => /\ Len(quiz_guessed) = Len(quiz_path.path)
                /\ quiz_guessed[1]
                /\ quiz_guessed[Len(quiz_guessed)])
    /\ [][PlayStep
             => /\ Len(quiz_guessed') = Len(quiz_guessed)
                /\ \A i \in DOMAIN quiz_guessed : quiz_guessed[i] => quiz_guessed'[i]
                /\ quiz_path' = quiz_path]_vars

\* In a quiz of four positions the first intermediate position has been
\* revealed, the quiz completed, and a guess made after that.
C29_Witness ==
    /\ Called("check_guess", "True")
    /\ ~quiz_active
    /\ Len(quiz_guessed) = 4 /\ quiz_guessed[2] /\ ~quiz_guessed[3]
    /\ quiz_total >= 2

\* C30: the score rises only in a step that moves a position of the path
\* from hidden to revealed, so within one quiz it rises at most once for each
\* intermediate position: a correct guess at a position that is revealed
\* already, an end of the path included, adds nothing to the score.
C30_ScoreOncePerPosition ==
    [][quiz_score' > quiz_score
          => \E i \in DOMAIN quiz_guessed :
                /\ i \in DOMAIN quiz_guessed'
                /\ ~quiz_guessed[i] /\ quiz_guessed'[i]]_vars

\* The part of C30 that holds: the score rises by one at a time, in a
\* check_guess that returns True and in no other call, and a correct guess at
\* a hidden position reveals it.
C30_ScoreByCorrectGuess ==
    [][quiz_score' # quiz_score
          => /\ quiz_score' = quiz_score + 1
             /\ last_call' = [op |-> "check_guess", ret |-> "True"]
             /\ \E i \in DOMAIN quiz_guessed :
                   quiz_guessed'[i] /\ \A j \in DOMAIN quiz_guessed \ {i} :
                                           quiz_guessed'[j] = quiz_guessed[j]]_vars

====
